---- MODULE Spec2Model ----
(***************************************************************************)
(* A model of the todo.txt task list of this repository:                   *)
(*   - the TodoList value of src/todotxt/src/lib.rs (items, path, next_id) *)
(*     and its operations,                                                 *)
(*   - the files it reads and writes,                                      *)
(*   - the four commands of src/gui/src-tauri/src/lib.rs, each of which    *)
(*     loads the file into a list of its own, changes it, saves it and     *)
(*     returns a snapshot,                                                 *)
(*   - two sessions that work on the same file, each on a list of its own, *)
(*   - build_project_tree of src/gui/src/project_tree.rs.                  *)
(*                                                                         *)
(* Text is a sequence of tokens: a word, a tag, the completion marker, a   *)
(* priority marker, a blank or a line feed.  A line is a text without a    *)
(* line feed.                                                              *)
(***************************************************************************)
EXTENDS Integers, Sequences, FiniteSets, TLC

VARIABLES
    items,      \* TodoList.items: the records of the session's list, in order
    path,       \* TodoList.path: NoPath or the bound location
    next_id,    \* TodoList.next_id
    fs,         \* the file system: location -> File(text) or NoFile
    ret,        \* the last Result a call returned: Ok(..) or Err(..)
    everIds,    \* history: every id a record of the session's list ever held
    addedIds,   \* history: every id add returned on the session's list
    born,       \* history: id -> the text add was given, for the records
                \* add made that were not removed since
    sessions,   \* two sessions, each with a TodoList of its own: 1..2 -> list
    seen,       \* history: the file each session's list was loaded from
    saved,      \* history: the sessions that saved since they loaded, in the
                \* order of their last save
    todos,      \* the argument of build_project_tree
    forest      \* what build_project_tree returned for it

\* the session's list with its history; the two sessions; the project tree
listVars == <<items, path, next_id, everIds, addedIds, born>>
twoVars == <<sessions, seen, saved>>
treeVars == <<todos, forest>>
aside == <<twoVars, treeVars>>

vars == <<items, path, next_id, fs, ret, everIds, addedIds, born,
          sessions, seen, saved, todos, forest>>

----------------------------------------------------------------------------
(* Bounds of the model *)

\* add is tried only while next_id is at most MaxId (a usize counter does
\* not overflow within it)
MaxId == 2

\* the lists given to build_project_tree carry at most MaxTags project tags
\* in all, on at most MaxTodos records
MaxTags == 3
MaxTodos == 2

----------------------------------------------------------------------------
(* Text *)

LF == "\n"
SP == " "
Whitespace == {SP, LF}

DoneMark == "x"
PrioMark == "(A)"
CtxTokens == {"@c"}
ProjTokens == {"+p", "+h---e"}

\* the name of a tag: the token without its marker
TagName(tok) ==
    CASE tok = "@c" -> "c"
      [] tok = "+p" -> "p"
      [] tok = "+h---e" -> "h---e"
      [] OTHER -> tok

\* the priority of a record without a priority marker (A is 0)
NoPriority == 26
PrioA == 0

\* str::lines: the pieces between line feeds; an empty last piece is no line
RECURSIVE SplitLF(_, _)
SplitLF(s, cur) ==
    IF s = <<>> THEN <<cur>>
    ELSE IF Head(s) = LF THEN <<cur>> \o SplitLF(Tail(s), <<>>)
    ELSE SplitLF(Tail(s), Append(cur, Head(s)))

Lines(s) ==
    LET pieces == SplitLF(s, <<>>)
    IN  IF pieces[Len(pieces)] = <<>>
        THEN SubSeq(pieces, 1, Len(pieces) - 1)
        ELSE pieces

\* str::trim: without the leading and the trailing whitespace
RECURSIVE TrimStart(_)
TrimStart(s) ==
    IF s # <<>> /\ Head(s) \in Whitespace THEN TrimStart(Tail(s)) ELSE s

RECURSIVE TrimEnd(_)
TrimEnd(s) ==
    IF s # <<>> /\ s[Len(s)] \in Whitespace
    THEN TrimEnd(SubSeq(s, 1, Len(s) - 1))
    ELSE s

Trim(s) == TrimEnd(TrimStart(s))

\* [String]::join
RECURSIVE Join(_, _)
Join(ss, sep) ==
    IF ss = <<>> THEN <<>>
    ELSE IF Len(ss) = 1 THEN ss[1]
    ELSE ss[1] \o <<sep>> \o Join(Tail(ss), sep)

\* the tags of one kind in a text, in the order met, duplicates kept: a tag is
\* a tag token at the start of the text or after whitespace
RECURSIVE TagsFrom(_, _, _)
TagsFrom(s, i, kind) ==
    IF i > Len(s) THEN <<>>
    ELSE IF s[i] \in kind /\ (i = 1 \/ s[i - 1] \in Whitespace)
         THEN <<TagName(s[i])>> \o TagsFrom(s, i + 1, kind)
         ELSE TagsFrom(s, i + 1, kind)

\* todo_txt::task::Simple::from.  The todo_txt crate is not part of the
\* repository's files; its parser is modelled after the format the
\* specification describes: a completion marker, or else (only on a task
\* that is not complete) a priority marker, at the start; the rest is the
\* subject, tags included.  Dates are not part of the model's texts.
Parse(s) ==
    LET fin  == Len(s) >= 2 /\ s[1] = DoneMark /\ s[2] = SP
        prio == ~fin /\ Len(s) >= 2 /\ s[1] = PrioMark /\ s[2] = SP
        subj == IF fin \/ prio THEN SubSeq(s, 3, Len(s)) ELSE s
    IN  [ subject  |-> subj,
          finished |-> fin,
          priority |-> IF prio THEN PrioA ELSE NoPriority,
          contexts |-> TagsFrom(subj, 1, CtxTokens),
          projects |-> TagsFrom(subj, 1, ProjTokens) ]

\* Display for todo_txt::task::Simple: completion marker, priority marker,
\* subject
Render(t) ==
    (IF t.finished THEN <<DoneMark, SP>> ELSE <<>>)
    \o (IF t.priority # NoPriority THEN <<PrioMark, SP>> ELSE <<>>)
    \o t.subject

\* todo_txt::task::Simple::complete and uncomplete
CompleteTask(t) == [t EXCEPT !.finished = TRUE]
UncompleteTask(t) == [t EXCEPT !.finished = FALSE]

----------------------------------------------------------------------------
(* The inputs *)

\* the texts a caller passes to add
AddTexts ==
    { <<"w">>,
      <<PrioMark, SP, "w", SP, "@c", SP, "+h---e">> }

\* the content of the file when the program starts: an empty file, a file
\* of one task among blank lines, a file of three tasks
InitFiles ==
    { <<>>,
      <<SP, LF, LF, SP, "v", SP, "+p", SP, LF>>,
      <<PrioMark, SP, "w", SP, "@c", SP, "+h---e", LF,
        DoneMark, SP, "v", SP, "@c", LF,
        "w">> }

NoPath == "none"
\* a location holds a file with its text, or nothing
File(text) == [ exists |-> TRUE, text |-> text ]
NoFile == [ exists |-> FALSE, text |-> <<>> ]
TODO_PATH == "todo.txt"
Paths == {TODO_PATH}

\* the ids a caller passes: those add can give, and one more
Ids == 1..(MaxId + 1)

----------------------------------------------------------------------------
(* TodoItem and TodoList, as values *)

\* TodoItem { inner, id }
Item(inner, id) ==
    [ id       |-> id,
      subject  |-> inner.subject,
      finished |-> inner.finished,
      priority |-> inner.priority,
      contexts |-> inner.contexts,
      projects |-> inner.projects ]

\* TodoItem.inner
Inner(item) ==
    [ subject  |-> item.subject,
      finished |-> item.finished,
      priority |-> item.priority,
      contexts |-> item.contexts,
      projects |-> item.projects ]

\* TodoList::new
NewList == [ items |-> <<>>, path |-> NoPath, next_id |-> 1 ]

\* an add that does not advance next_id
AddToSameId(L, text) ==
    [ L EXCEPT !.items = Append(L.items, Item(Parse(text), L.next_id)) ]

\* the body of add: parse, take next_id, advance it, push
AddTo(L, text) ==
    [ L EXCEPT !.items = Append(L.items, Item(Parse(text), L.next_id)),
               !.next_id = L.next_id + 1 ]

\* a loop that numbers the records by their line: a blank line takes an id
RECURSIVE LoadLinesByLineNumber(_, _)
LoadLinesByLineNumber(L, lines) ==
    IF lines = <<>> THEN L
    ELSE LET line == Trim(Head(lines))
         IN  IF line = <<>>
             THEN LoadLinesByLineNumber([L EXCEPT !.next_id = L.next_id + 1],
                                        Tail(lines))
             ELSE LoadLinesByLineNumber(AddTo(L, line), Tail(lines))

\* the loop of from_file over the lines: trim, skip the empty, add the rest
RECURSIVE LoadLines(_, _)
LoadLines(L, lines) ==
    IF lines = <<>> THEN L
    ELSE LET line == Trim(Head(lines))
         IN  IF line = <<>>
             THEN LoadLines(L, Tail(lines))
             ELSE LoadLines(AddTo(L, line), Tail(lines))

\* a from_file that pushes the records and leaves next_id at its start
FromContentIdKept(p, content) ==
    [ LoadLines([NewList EXCEPT !.path = p], Lines(content))
        EXCEPT !.next_id = NewList.next_id ]

\* from_file, once the file is read
FromContent(p, content) ==
    LoadLines([NewList EXCEPT !.path = p], Lines(content))

\* iter().position(|item| item.id == id): the first index, 0 for None
RECURSIVE PositionFrom(_, _, _)
PositionFrom(its, id, i) ==
    IF i > Len(its) THEN 0
    ELSE IF its[i].id = id THEN i
    ELSE PositionFrom(its, id, i + 1)

Position(its, id) == PositionFrom(its, id, 1)

\* a remove(pos) that drops the record after the one found, when there is one
RemoveAtNext(its, pos) ==
    IF pos < Len(its)
    THEN SubSeq(its, 1, pos) \o SubSeq(its, pos + 2, Len(its))
    ELSE SubSeq(its, 1, pos - 1)

\* Vec::remove(pos)
RemoveAt(its, pos) ==
    SubSeq(its, 1, pos - 1) \o SubSeq(its, pos + 1, Len(its))

\* a complete that flips the flag
CompleteItemToggling(item) ==
    Item([Inner(item) EXCEPT !.finished = ~item.finished], item.id)

\* an uncomplete that also takes the priority off the record
UncompleteItemDroppingPriority(item) ==
    Item([UncompleteTask(Inner(item)) EXCEPT !.priority = NoPriority], item.id)


\* TodoItem::complete and uncomplete
CompleteItem(item) == Item(CompleteTask(Inner(item)), item.id)
UncompleteItem(item) == Item(UncompleteTask(Inner(item)), item.id)

\* a complete that falls back on the last record when get_mut finds none
CompleteInOrLast(its, id) ==
    LET pos == IF Position(its, id) = 0 THEN Len(its) ELSE Position(its, id)
    IN  IF pos = 0 THEN its ELSE [its EXCEPT ![pos] = CompleteItem(its[pos])]

\* TodoList::complete: the items after it (unchanged when get_mut finds none)
CompleteIn(its, id) ==
    LET pos == Position(its, id)
    IN  IF pos = 0 THEN its ELSE [its EXCEPT ![pos] = CompleteItem(its[pos])]

\* TodoList::uncomplete
UncompleteIn(its, id) ==
    LET pos == Position(its, id)
    IN  IF pos = 0 THEN its ELSE [its EXCEPT ![pos] = UncompleteItem(its[pos])]

\* a remove that takes the id for the index
RemoveInByIndex(its, id) ==
    IF id <= Len(its) THEN RemoveAt(its, id) ELSE its

\* TodoList::remove: the items after it
RemoveIn(its, id) ==
    LET pos == Position(its, id)
    IN  IF pos = 0 THEN its ELSE RemoveAt(its, pos)

\* the content save_to writes: every record rendered, joined by line feeds
Content(its) ==
    Join([i \in 1..Len(its) |-> Render(Inner(its[i]))], LF)

\* to_response: the snapshot of a list
ToResponse(its) ==
    [i \in 1..Len(its) |->
        [ id       |-> its[i].id,
          subject  |-> its[i].subject,
          finished |-> its[i].finished,
          priority |-> its[i].priority,
          contexts |-> its[i].contexts,
          projects |-> its[i].projects ]]

\* TodoList::pending, TodoList::done and TodoList::len: the iterators, as
\* the sequences they yield
pending(its) == SelectSeq(its, LAMBDA item : ~item.finished)

\* a done() that yields every record
doneUnfiltered(its) == its

done(its) == SelectSeq(its, LAMBDA item : item.finished)

len(its) == Len(its)


\* the ids of the records of a list
IdsOf(its) == { its[i].id : i \in 1..Len(its) }

----------------------------------------------------------------------------
(* The project tree.  A project tag is a string, here a sequence of         *)
(* characters; the list given to build_project_tree is a sequence of        *)
(* records of which only the projects are read                               *)

PROJECT_SEPARATOR == <<"-", "-", "-">>

\* the byte of a character: strings are ordered by their bytes
CharCode(c) ==
    CASE c = "-" -> 45
      [] c = "a" -> 97
      [] c = "b" -> 98

\* String's Ord: s < t
RECURSIVE StrLess(_, _)
StrLess(s, t) ==
    IF t = <<>> THEN FALSE
    ELSE IF s = <<>> THEN TRUE
    ELSE IF Head(s) = Head(t) THEN StrLess(Tail(s), Tail(t))
    ELSE CharCode(Head(s)) < CharCode(Head(t))

\* str::split(PROJECT_SEPARATOR): the pieces between the separators, found
\* from the left; a string without a separator, the empty one too, is one
\* piece
RECURSIVE SplitFrom(_, _)
SplitFrom(s, cur) ==
    IF s = <<>> THEN <<cur>>
    ELSE IF /\ Len(s) >= Len(PROJECT_SEPARATOR)
            /\ SubSeq(s, 1, Len(PROJECT_SEPARATOR)) = PROJECT_SEPARATOR
         THEN <<cur>> \o SplitFrom(SubSeq(s, Len(PROJECT_SEPARATOR) + 1, Len(s)), <<>>)
         ELSE SplitFrom(Tail(s), Append(cur, Head(s)))

Split(project) == SplitFrom(project, <<>>)

\* BTreeMap::new() and TempNode::default(); a map is a function from the
\* names it holds
EmptyMap == <<>>
TempNodeDefault == [ count |-> 0, children |-> EmptyMap ]

\* a walk that counts the tag into every node on its way
RECURSIVE InsertPartsCountingAll(_, _)
InsertPartsCountingAll(map, parts) ==
    LET part == Head(parts)
        node == IF part \in DOMAIN map THEN map[part] ELSE TempNodeDefault
        last == Len(parts) = 1
        after == [ count    |-> node.count + 1,
                   children |-> IF last THEN node.children
                                ELSE InsertPartsCountingAll(node.children, Tail(parts)) ]
    IN  [n \in DOMAIN map \cup {part} |-> IF n = part THEN after ELSE map[n]]

\* a walk that puts a new node in the place of the one its last part names
RECURSIVE InsertPartsReplacing(_, _)
InsertPartsReplacing(map, parts) ==
    LET part == Head(parts)
        node == IF part \in DOMAIN map THEN map[part] ELSE TempNodeDefault
        last == Len(parts) = 1
        after == [ count    |-> IF last THEN node.count + 1 ELSE node.count,
                   children |-> IF last THEN EmptyMap
                                ELSE InsertPartsReplacing(node.children, Tail(parts)) ]
    IN  [n \in DOMAIN map \cup {part} |-> IF n = part THEN after ELSE map[n]]


\* the walk of one tag's parts from a map down: entry(part).or_insert_with,
\* count += 1 on the last part, then on into the node's children
RECURSIVE InsertParts(_, _)
InsertParts(map, parts) ==
    LET part == Head(parts)
        node == IF part \in DOMAIN map THEN map[part] ELSE TempNodeDefault
        last == Len(parts) = 1
        after == [ count    |-> IF last THEN node.count + 1 ELSE node.count,
                   children |-> IF last THEN node.children
                                ELSE InsertParts(node.children, Tail(parts)) ]
    IN  [n \in DOMAIN map \cup {part} |-> IF n = part THEN after ELSE map[n]]

\* for project in &todo.projects
RECURSIVE FoldProjects(_, _)
FoldProjects(map, projects) ==
    IF projects = <<>> THEN map
    ELSE FoldProjects(InsertParts(map, Split(Head(projects))), Tail(projects))

\* for todo in todos
RECURSIVE FoldTodos(_, _)
FoldTodos(map, ts) ==
    IF ts = <<>> THEN map
    ELSE FoldTodos(FoldProjects(map, Head(ts).projects), Tail(ts))

\* an iteration that gives the keys in descending order
RECURSIVE SortedKeysDescending(_)
SortedKeysDescending(S) ==
    IF S = {} THEN <<>>
    ELSE LET most == CHOOSE x \in S : \A y \in S \ {x} : StrLess(y, x)
         IN  <<most>> \o SortedKeysDescending(S \ {most})


\* BTreeMap::iter: the keys in ascending order
RECURSIVE SortedKeys(_)
SortedKeys(S) ==
    IF S = {} THEN <<>>
    ELSE LET least == CHOOSE x \in S : \A y \in S \ {x} : StrLess(x, y)
         IN  <<least>> \o SortedKeys(S \ {least})

\* convert(map, prefix)
RECURSIVE convert(_, _)
convert(map, prefix) ==
    LET keys == SortedKeys(DOMAIN map)
    IN  [i \in 1..Len(keys) |->
            LET name == keys[i]
                full_path == IF prefix = <<>> THEN name
                             ELSE prefix \o PROJECT_SEPARATOR \o name
            IN  [ name         |-> name,
                  full_path    |-> full_path,
                  direct_count |-> map[name].count,
                  children     |-> convert(map[name].children, full_path) ]]

\* build_project_tree
build_project_tree(ts) == convert(FoldTodos(EmptyMap, ts), <<>>)


----------------------------------------------------------------------------
(* The file system *)

\* fs::read_to_string: fails on a missing file, and may fail on any
ReadOutcomes(p) == IF fs[p].exists THEN BOOLEAN ELSE {FALSE}

\* fs::write creates or truncates the file, then writes: it succeeds, or fails
\* before the file is touched, or fails with the file truncated
WriteOutcomes == {"ok", "fail_open", "fail_write"}

Written(p, content, how) ==
    CASE how = "ok" -> [fs EXCEPT ![p] = File(content)]
      [] how = "fail_write" -> [fs EXCEPT ![p] = File(<<>>)]
      [] OTHER -> fs

----------------------------------------------------------------------------
(* Results *)

\* an error value: a std::io::Error has a kind and a message, a String is
\* its message alone
NotFoundKind == "NotFound"
OtherKind == "Other"
NoKind == ""
IoErrorOf(kind, msg) == [ kind |-> kind, msg |-> msg ]
Text(msg) == [ kind |-> NoKind, msg |-> msg ]

\* Ok(()) and Ok(snapshot)
Ok(snap) == [ ok |-> TRUE, err |-> Text(""), snap |-> snap ]
\* Err(e)
Err(e) == [ ok |-> FALSE, err |-> e, snap |-> <<>> ]

\* the error of the operating system for a failed call
OsError(kind) ==
    IoErrorOf(kind, IF kind = NotFoundKind
                    THEN "No such file or directory (os error 2)"
                    ELSE "os error")

\* the error of fs::read_to_string: NotFound for a missing file, another
\* kind (no permission, not UTF-8) for a file that is there
ReadErrorOf(f) == OsError(IF f.exists THEN OtherKind ELSE NotFoundKind)
ReadError(p) == ReadErrorOf(fs[p])

\* the error of fs::write; the directory of the model's location exists
WriteError == OsError(OtherKind)

\* the error of save when no path is set
NoPathError == IoErrorOf(NotFoundKind, "no file path set")

\* e.to_string()
to_string(e) == e.msg

\* the commands' message for an id no record holds
NotFoundMessage == "Todo not found"

\* the session's list as a value
Cur == [ items |-> items, path |-> path, next_id |-> next_id ]

\* what add returns: the id it took
AddReturn(L) == L.next_id

\* what get returns, and what remove returns: Some(record) as <<record>>,
\* None as <<>>
GetItem(its, id) ==
    LET pos == Position(its, id)
    IN  IF pos = 0 THEN <<>> ELSE <<its[pos]>>

RemoveReturn(its, id) ==
    LET pos == Position(its, id)
    IN  IF pos = 0 THEN <<>> ELSE <<its[pos]>>

\* what complete and uncomplete return: whether get_mut found the record
CompleteReturn(its, id) == Position(its, id) # 0
UncompleteReturn(its, id) == Position(its, id) # 0

NoBorn == [k \in {} |-> <<>>]

\* the two sessions
Sessions == 1..2

Init ==
    /\ items = NewList.items
    /\ path = NewList.path
    /\ next_id = NewList.next_id
    /\ fs \in [Paths -> {File(t) : t \in InitFiles} \cup {NoFile}]
    /\ ret = Ok(<<>>)
    /\ everIds = {}
    /\ addedIds = {}
    /\ born = NoBorn
    /\ sessions = [s \in Sessions |-> NewList]
    /\ seen = [s \in Sessions |-> NoFile]
    /\ saved = <<>>
    /\ todos = <<>>
    /\ forest = <<>>

----------------------------------------------------------------------------
(* The operations of a TodoList, on the session's list *)

\* TodoList::new: a new list takes the place of the session's list
New ==
    /\ items' = NewList.items
    /\ path' = NewList.path
    /\ next_id' = NewList.next_id
    /\ everIds' = {}
    /\ addedIds' = {}
    /\ born' = NoBorn
    /\ UNCHANGED <<fs, ret, aside>>

\* TodoList::from_file: the loaded list takes the place of the session's list;
\* on a read failure no list is made
FromFile(p) ==
    \E readOk \in ReadOutcomes(p) :
        IF readOk
        THEN LET L == FromContent(p, fs[p].text)
             IN  /\ ret' = Ok(<<>>)
                 /\ addedIds' = {}
                 /\ born' = NoBorn
                 /\ path' = L.path
                 /\ next_id' = L.next_id
                 /\ items' = L.items
                 /\ everIds' = IdsOf(L.items)
                 /\ UNCHANGED <<fs, aside>>
        ELSE /\ ret' = Err(ReadError(p))
             /\ UNCHANGED <<items, path, next_id, fs, everIds, addedIds, born, aside>>

\* TodoList::set_path
SetPath(p) ==
    /\ path' = p
    /\ UNCHANGED <<items, next_id, fs, ret, everIds, addedIds, born, aside>>

\* an add that puts the new record first
AddInFront(text) ==
    /\ next_id <= MaxId
    /\ items' = <<Item(Parse(text), next_id)>> \o items
    /\ next_id' = next_id + 1
    /\ everIds' = everIds \cup {next_id}
    /\ addedIds' = addedIds \cup {next_id}
    /\ born' = [k \in DOMAIN born \cup {next_id} |->
                   IF k = next_id THEN text ELSE born[k]]
    /\ UNCHANGED <<path, fs, ret, aside>>

\* TodoList::add
Add(text) ==
    /\ next_id <= MaxId
    /\ LET L == AddTo(Cur, text)
       IN  /\ next_id' = L.next_id
           /\ items' = L.items
           /\ everIds' = everIds \cup IdsOf(L.items)
           /\ addedIds' = addedIds \cup {AddReturn(Cur)}
           /\ born' = [k \in DOMAIN born \cup {AddReturn(Cur)} |->
                          IF k = AddReturn(Cur) THEN text ELSE born[k]]
    /\ UNCHANGED <<path, fs, ret, aside>>

\* a remove that hands the last id back: next_id falls to one past the
\* largest id left
RemoveRewinding(id) ==
    /\ items' = RemoveIn(items, id)
    /\ next_id' = IF items' = <<>> THEN 1 ELSE items'[Len(items')].id + 1
    /\ born' = [k \in DOMAIN born \ {id} |-> born[k]]
    /\ UNCHANGED <<path, fs, ret, everIds, addedIds, aside>>

\* TodoList::remove
Remove(id) ==
    /\ UNCHANGED <<next_id, ret, path, fs, everIds, addedIds, aside>>
    /\ items' = RemoveIn(items, id)
    /\ born' = [k \in DOMAIN born \ {id} |-> born[k]]

\* TodoList::complete
Complete(id) ==
    /\ UNCHANGED <<next_id, ret, path, fs, everIds, addedIds, born, aside>>
    /\ items' = CompleteIn(items, id)

\* TodoList::uncomplete
Uncomplete(id) ==
    /\ UNCHANGED <<next_id, ret, path, fs, everIds, addedIds, born, aside>>
    /\ items' = UncompleteIn(items, id)

\* a save_to that, when the write fails, puts the list back to what the file
\* holds
SaveToRollingBack(p) ==
    \E how \in WriteOutcomes :
        /\ fs' = Written(p, Content(items), how)
        /\ ret' = IF how = "ok" THEN Ok(<<>>) ELSE Err(WriteError)
        /\ items' = IF how = "ok" THEN items ELSE FromContent(p, fs[p].text).items
        /\ UNCHANGED <<path, next_id, everIds, addedIds, born, aside>>


\* the subjects a caller passes to set_subject, and the priorities it passes
\* to set_priority
EditSubjects == { <<"w">>, <<"v", SP, "+p">> }
Priorities == {PrioA, NoPriority}

\* TodoItem::set_subject: the subject field is replaced, nothing is parsed
SetSubjectOf(item, subject) == [item EXCEPT !.subject = subject]

\* TodoItem::set_priority
SetPriorityOf(item, priority) == [item EXCEPT !.priority = priority]

\* get_mut(id), then set_subject on the record found
SetSubject(id, subject) ==
    /\ Position(items, id) # 0
    /\ items' = [items EXCEPT
                    ![Position(items, id)] = SetSubjectOf(@, subject)]
    /\ UNCHANGED <<path, next_id, fs, ret, everIds, addedIds, born, aside>>

\* get_mut(id), then set_priority on the record found
SetPriority(id, priority) ==
    /\ Position(items, id) # 0
    /\ items' = [items EXCEPT
                    ![Position(items, id)] = SetPriorityOf(@, priority)]
    /\ UNCHANGED <<path, next_id, fs, ret, everIds, addedIds, born, aside>>


\* TodoList::save_to: writes the whole list; the bound path stays
SaveTo(p) ==
    \E how \in WriteOutcomes :
        /\ fs' = Written(p, Content(items), how)
        /\ ret' = IF how = "ok" THEN Ok(<<>>) ELSE Err(WriteError)
        /\ UNCHANGED <<items, path, next_id, everIds, addedIds, born, aside>>

\* TodoList::save: an error when no path is set, else save_to(path)
Save ==
    IF path = NoPath
    THEN /\ ret' = Err(NoPathError)
         /\ UNCHANGED <<items, path, next_id, fs, everIds, addedIds, born, aside>>
    ELSE SaveTo(path)

----------------------------------------------------------------------------
(* The commands: each works on a list of its own, loaded from TODO_PATH *)

CmdFailed(msg) ==
    /\ ret' = Err(Text(msg))
    /\ UNCHANGED <<items, path, next_id, fs, everIds, addedIds, born, aside>>

\* a command that returns the snapshot without saving the list
CmdReturnUnsaved(its) ==
    /\ ret' = Ok(ToResponse(its))
    /\ UNCHANGED <<items, path, next_id, fs, everIds, addedIds, born, aside>>

\* list.save().map_err(..)?; Ok(to_response(&list))
CmdSaveAndReturn(its) ==
    \E how \in WriteOutcomes :
        /\ fs' = Written(TODO_PATH, Content(its), how)
        /\ ret' = IF how = "ok" THEN Ok(ToResponse(its))
                  ELSE Err(Text(to_string(WriteError)))
        /\ UNCHANGED <<items, path, next_id, everIds, addedIds, born, aside>>

\* get_todos
GetTodos ==
    \E readOk \in ReadOutcomes(TODO_PATH) :
        IF ~readOk THEN CmdFailed(to_string(ReadError(TODO_PATH)))
        ELSE LET L == FromContent(TODO_PATH, fs[TODO_PATH].text)
             IN  /\ ret' = Ok(ToResponse(L.items))
                 /\ UNCHANGED <<items, path, next_id, fs, everIds, addedIds, born, aside>>

\* the list add_todo saves
AddTodoList(L, text) == AddTo(L, text).items

\* add_todo
AddTodo(text) ==
    \E readOk \in ReadOutcomes(TODO_PATH) :
        IF ~readOk THEN CmdFailed(to_string(ReadError(TODO_PATH)))
        ELSE LET L == FromContent(TODO_PATH, fs[TODO_PATH].text)
             IN  /\ L.next_id <= MaxId
                 /\ CmdSaveAndReturn(AddTodoList(L, text))

\* the list toggle_todo saves, for an id a record holds
ToggleTodoList(L, id) ==
    IF GetItem(L.items, id)[1].finished
    THEN UncompleteIn(L.items, id)
    ELSE CompleteIn(L.items, id)

\* a toggle_todo that saves the list it loaded before it reports the id
\* missing
ToggleTodoSavingAnyway(id) ==
    \E readOk \in ReadOutcomes(TODO_PATH) :
        IF ~readOk THEN CmdFailed(to_string(ReadError(TODO_PATH)))
        ELSE LET L == FromContent(TODO_PATH, fs[TODO_PATH].text)
             IN  IF GetItem(L.items, id) = <<>>
                 THEN /\ fs' = Written(TODO_PATH, Content(L.items), "ok")
                      /\ ret' = Err(Text(NotFoundMessage))
                      /\ UNCHANGED <<listVars, aside>>
                 ELSE CmdSaveAndReturn(ToggleTodoList(L, id))


\* toggle_todo
ToggleTodo(id) ==
    \E readOk \in ReadOutcomes(TODO_PATH) :
        IF ~readOk THEN CmdFailed(to_string(ReadError(TODO_PATH)))
        ELSE LET L == FromContent(TODO_PATH, fs[TODO_PATH].text)
             IN  IF GetItem(L.items, id) = <<>>
                 THEN CmdFailed(NotFoundMessage)
                 ELSE CmdSaveAndReturn(ToggleTodoList(L, id))

\* the list delete_todo saves, for an id a record holds
DeleteTodoList(L, id) == RemoveIn(L.items, id)

\* delete_todo
DeleteTodo(id) ==
    \E readOk \in ReadOutcomes(TODO_PATH) :
        IF ~readOk THEN CmdFailed(to_string(ReadError(TODO_PATH)))
        ELSE LET L == FromContent(TODO_PATH, fs[TODO_PATH].text)
             IN  IF RemoveReturn(L.items, id) = <<>>
                 THEN CmdFailed(NotFoundMessage)
                 ELSE CmdSaveAndReturn(DeleteTodoList(L, id))

----------------------------------------------------------------------------
(* Two sessions on the same file: each holds a TodoList of its own, and     *)
(* nothing but the file is shared between them                               *)

\* a sequence without the element x
Without(seq, x) == SelectSeq(seq, LAMBDA y : y # x)

\* TodoList::from_file(TODO_PATH) in session s
SessionLoad(s) ==
    \E readOk \in ReadOutcomes(TODO_PATH) :
        IF readOk
        THEN /\ sessions' = [sessions EXCEPT
                                ![s] = FromContent(TODO_PATH, fs[TODO_PATH].text)]
             /\ seen' = [seen EXCEPT ![s] = fs[TODO_PATH]]
             /\ saved' = Without(saved, s)
             /\ ret' = Ok(<<>>)
             /\ UNCHANGED <<fs, listVars, treeVars>>
        ELSE /\ ret' = Err(ReadError(TODO_PATH))
             /\ UNCHANGED <<fs, listVars, twoVars, treeVars>>

\* the text a session adds
SessionTexts == { <<"w">> }

\* TodoList::add in session s
SessionAdd(s, text) ==
    /\ sessions[s].next_id <= MaxId
    /\ sessions' = [sessions EXCEPT ![s] = AddTo(sessions[s], text)]
    /\ UNCHANGED <<fs, ret, seen, saved, listVars, treeVars>>

\* TodoList::remove in session s
SessionRemove(s, id) ==
    /\ sessions' = [sessions EXCEPT ![s].items = RemoveIn(sessions[s].items, id)]
    /\ UNCHANGED <<fs, ret, seen, saved, listVars, treeVars>>

\* TodoList::complete in session s
SessionComplete(s, id) ==
    /\ sessions' = [sessions EXCEPT ![s].items = CompleteIn(sessions[s].items, id)]
    /\ UNCHANGED <<fs, ret, seen, saved, listVars, treeVars>>

\* a save that refuses to write a file that is no longer the one loaded
SessionSaveGuarded(s) ==
    IF sessions[s].path = NoPath \/ fs[TODO_PATH] # seen[s]
    THEN /\ ret' = Err(NoPathError)
         /\ UNCHANGED <<fs, listVars, twoVars, treeVars>>
    ELSE \E how \in WriteOutcomes :
            /\ fs' = Written(sessions[s].path, Content(sessions[s].items), how)
            /\ ret' = IF how = "ok" THEN Ok(<<>>) ELSE Err(WriteError)
            /\ saved' = IF how = "ok" THEN Append(Without(saved, s), s) ELSE saved
            /\ UNCHANGED <<sessions, seen, listVars, treeVars>>

\* TodoList::save in session s
SessionSave(s) ==
    IF sessions[s].path = NoPath
    THEN /\ ret' = Err(NoPathError)
         /\ UNCHANGED <<fs, listVars, twoVars, treeVars>>
    ELSE \E how \in WriteOutcomes :
            /\ fs' = Written(sessions[s].path, Content(sessions[s].items), how)
            /\ ret' = IF how = "ok" THEN Ok(<<>>) ELSE Err(WriteError)
            /\ saved' = IF how = "ok" THEN Append(Without(saved, s), s) ELSE saved
            /\ UNCHANGED <<sessions, seen, listVars, treeVars>>


----------------------------------------------------------------------------

\* a session that works on a TodoList of its own
ListNext ==
    \/ New
    \/ \E p \in Paths : FromFile(p)
    \/ \E p \in Paths : SetPath(p)
    \/ \E t \in AddTexts : Add(t)
    \/ \E id \in Ids : Remove(id)
    \/ \E id \in Ids : Complete(id)
    \/ \E id \in Ids : Uncomplete(id)
    \/ \E p \in Paths : SaveTo(p)
    \/ Save

Spec == Init /\ [][ListNext]_vars

\* the application: the front end calls the commands, and nothing else
\* touches the file
CmdNext ==
    \/ GetTodos
    \/ \E t \in AddTexts : AddTodo(t)
    \/ \E id \in Ids : ToggleTodo(id)
    \/ \E id \in Ids : DeleteTodo(id)

CmdSpec == Init /\ [][CmdNext]_vars

\* the texts a caller passes to add, the odd ones among them: the empty
\* text, a text of one blank, a text of two lines
TripTexts ==
    { <<"w">>,
      <<>>,
      <<SP>>,
      <<"w", LF, "v", SP, "+p">> }

\* a session that adds such texts, changes its list and saves it
TripNext ==
    \/ \E p \in Paths : FromFile(p)
    \/ \E p \in Paths : SetPath(p)
    \/ \E t \in TripTexts : Add(t)
    \/ \E id \in Ids : Remove(id)
    \/ \E id \in Ids : Complete(id)
    \/ \E id \in Ids : Uncomplete(id)
    \/ Save

TripSpec == Init /\ [][TripNext]_vars


\* a session that also edits the records it gets by get_mut
EditNext ==
    \/ \E p \in Paths : FromFile(p)
    \/ \E t \in AddTexts : Add(t)
    \/ \E id \in Ids : Complete(id)
    \/ \E id \in Ids : Uncomplete(id)
    \/ \E id \in Ids, subject \in EditSubjects : SetSubject(id, subject)
    \/ \E id \in Ids, priority \in Priorities : SetPriority(id, priority)

EditSpec == Init /\ [][EditNext]_vars


\* session s has loaded its list; it has saved it
HasLoaded(s) == seen[s].exists
HasSaved(s) == \E i \in 1..Len(saved) : saved[i] = s

\* two sessions, in any order: each loads the file once, changes the list it
\* loaded, and saves it
TwoNext ==
    \E s \in Sessions :
        \/ ~HasLoaded(s) /\ SessionLoad(s)
        \/ HasLoaded(s) /\ ~HasSaved(s) /\ \E t \in SessionTexts : SessionAdd(s, t)
        \/ HasLoaded(s) /\ ~HasSaved(s) /\ \E id \in Ids : SessionRemove(s, id)
        \/ HasLoaded(s) /\ ~HasSaved(s) /\ \E id \in Ids : SessionComplete(s, id)
        \/ SessionSave(s)

TwoSpec == Init /\ [][TwoNext]_vars


----------------------------------------------------------------------------
(* The calls of build_project_tree *)

\* the project tags of the lists: a, b, a---b, a---a, ---a and the empty tag
ProjectTags ==
    { <<"a">>,
      <<"b">>,
      <<"a">> \o PROJECT_SEPARATOR \o <<"b">>,
      <<"a">> \o PROJECT_SEPARATOR \o <<"a">>,
      PROJECT_SEPARATOR \o <<"a">>,
      <<>> }

\* the tags of a list, in a row
TagRows == UNION { [1..n -> ProjectTags] : n \in 0..MaxTags }

\* a row of tags dealt to k records, record owner[j] taking the j-th tag
Deal(row, owner, k) ==
    [i \in 1..k |->
        LET mine == SelectSeq([j \in 1..Len(row) |-> j], LAMBDA j : owner[j] = i)
        IN  [ projects |-> [m \in 1..Len(mine) |-> row[mine[m]]] ]]

\* the ways to deal a row to k records in the order of the row
Owners(row, k) ==
    { f \in [1..Len(row) -> 1..k] : \A j \in 2..Len(row) : f[j - 1] <= f[j] }

\* before the call: a list of at most MaxTodos records with at most MaxTags
\* tags in all is given, no forest is built
TreeInit ==
    /\ \E k \in 0..MaxTodos : \E row \in TagRows : \E owner \in Owners(row, k) :
           todos = Deal(row, owner, k)
    /\ forest = <<>>
    /\ items = NewList.items
    /\ path = NewList.path
    /\ next_id = NewList.next_id
    /\ fs = [p \in Paths |-> NoFile]
    /\ ret = Ok(<<>>)
    /\ everIds = {}
    /\ addedIds = {}
    /\ born = NoBorn
    /\ sessions = [s \in Sessions |-> NewList]
    /\ seen = [s \in Sessions |-> NoFile]
    /\ saved = <<>>

\* the call build_project_tree(&todos)
BuildTree ==
    /\ forest' = build_project_tree(todos)
    /\ UNCHANGED <<todos, fs, ret, listVars, twoVars>>

TreeNext == BuildTree

TreeSpec == TreeInit /\ [][TreeNext]_vars


----------------------------------------------------------------------------
(* The claims.  A claim about the steps of an operation Op is written       *)
(* Op => Q, or Q \/ ~Op: in every step that is a step of Op, Q.             *)

\* the list was made anew in this step: new or from_file
Recreated == New \/ \E p \in Paths : FromFile(p)

\* the ids of a list, in list order
IdSeq(its) == [i \in 1..Len(its) |-> its[i].id]

\* a record but for its finished flag
SameButFinished(r, e) == [r EXCEPT !.finished = e.finished] = e

\* C1: whatever operations came before on the list, the id add returns (and
\* gives to the record it appends) is larger than every id add returned
\* before, and is no id a record of the list ever held, removed or not.
C1_IdMonotonic ==
    [][\A t \in AddTexts :
          Add(t) =>
              /\ \A k \in addedIds : k < AddReturn(Cur)
              /\ AddReturn(Cur) \notin everIds
              /\ items'[Len(items')].id = AddReturn(Cur)]_vars

\* two adds with a remove of the first record: id 1 is gone, id 2 was given
C1_Witness ==
    /\ addedIds = {1, 2}
    /\ IdsOf(items) = {2}
    /\ next_id = 3

\* C2: a record add made is found by get under the id add returned, with
\* the content add gave it (the finished flag apart), until it is removed;
\* and no step but its removal or a new list changes what get finds under
\* the id of a live record, the finished flag apart.
C2_IdStable ==
    /\ [](\A k \in DOMAIN born :
            /\ GetItem(items, k) # <<>>
            /\ SameButFinished(GetItem(items, k)[1], Item(Parse(born[k]), k)))
    /\ [][\A k \in IdsOf(items) :
            \/ /\ GetItem(items', k) # <<>>
               /\ SameButFinished(GetItem(items', k)[1], GetItem(items, k)[1])
            \/ Remove(k)
            \/ Recreated]_vars

\* the second record add made is still found, completed since, after the
\* first was removed
C2_Witness ==
    /\ addedIds = {1, 2}
    /\ DOMAIN born = {2}
    /\ GetItem(items, 2) # <<>>
    /\ GetItem(items, 2)[1].finished
    /\ GetItem(items, 2)[1].subject = Parse(born[2]).subject

\* the list a command loads
Loaded == FromContent(TODO_PATH, fs[TODO_PATH].text).items

\* after the step the file is the rendering of post, and the snapshot
\* returned is post and not the list as loaded
Persisted(post) ==
    /\ fs'[TODO_PATH] = File(Content(post))
    /\ ret'.snap = ToResponse(post)
    /\ ret'.snap # ToResponse(Loaded)

\* C3: when add_todo, toggle_todo or delete_todo returns Ok, the file holds
\* the rendering of the whole list as changed (the loaded list with the new
\* record appended under the next id, or with the record of the id flipped,
\* or without the record of the id), and the snapshot returned is that
\* changed list, every record in list order, not the list as loaded.
C3_PersistBeforeReturn ==
    [][/\ \A t \in AddTexts :
            (AddTodo(t) /\ ret'.ok) =>
                Persisted(Append(Loaded, Item(Parse(t), Len(Loaded) + 1)))
       /\ \A id \in Ids :
            (ToggleTodo(id) /\ ret'.ok) =>
                Persisted([i \in 1..Len(Loaded) |->
                              IF Loaded[i].id = id
                              THEN [Loaded[i] EXCEPT !.finished = ~Loaded[i].finished]
                              ELSE Loaded[i]])
       /\ \A id \in Ids :
            (DeleteTodo(id) /\ ret'.ok) =>
                Persisted(SelectSeq(Loaded, LAMBDA r : r.id # id))]_vars

\* add_todo returned the task of the file and the task added after it, and
\* the file holds both lines
C3_Witness ==
    /\ ret.ok
    /\ Len(ret.snap) = 2
    /\ ret.snap[1].subject = <<"v", SP, "+p">>
    /\ ret.snap[2].subject = <<"w">>
    /\ ret.snap[2].id = 2
    /\ fs[TODO_PATH] = File(<<"v", SP, "+p", LF, "w">>)

\* C4: next_id is larger than the id of every record the list holds or ever
\* held, and no step on the same list lowers it.
C4_NextIdAbove ==
    /\ [](\A k \in everIds \cup IdsOf(items) : k < next_id)
    /\ [][next_id' >= next_id \/ Recreated]_vars

\* both records the list ever held are removed, and next_id stays above them
C4_Witness ==
    /\ everIds = {1, 2}
    /\ items = <<>>
    /\ next_id = 3

\* C5: no two records of the list hold the same id.
C5_UniqueIds ==
    \A i, j \in 1..Len(items) : i # j => items[i].id # items[j].id

\* a loaded record and an added one, the added one completed
C5_Witness ==
    /\ Len(items) = 2
    /\ addedIds = {2}
    /\ path = TODO_PATH
    /\ items[2].finished

\* C6: the records are in ascending id order; add leaves the records it
\* found in place and puts the new one last; remove takes the record of the
\* id out and keeps the others in their order; complete and uncomplete keep
\* the order.
C6_InsertionOrder ==
    /\ [](\A i, j \in 1..Len(items) : i < j => items[i].id < items[j].id)
    /\ [][/\ \A t \in AddTexts :
               \/ /\ Len(items') = Len(items) + 1
                  /\ SubSeq(items', 1, Len(items)) = items
               \/ ~Add(t)
          /\ \A id \in Ids :
               \/ IdSeq(items') = SelectSeq(IdSeq(items), LAMBDA k : k # id)
               \/ ~Remove(id)
          /\ \/ IdSeq(items') = IdSeq(items)
             \/ ~\E id \in Ids : Complete(id) \/ Uncomplete(id)]_vars

\* the middle record of three is removed and the last completed
C6_Witness ==
    /\ IdSeq(items) = <<1, 3>>
    /\ items[2].finished
    /\ items[1].priority = PrioA

\* the lines of a file that are neither empty nor whitespace only
HasText(line) == \E i \in 1..Len(line) : line[i] \notin Whitespace

TextLines(p) == SelectSeq(Lines(fs[p].text), HasText)

\* C7: a from_file that succeeds gives a list of as many records as the
\* file has lines with something else than whitespace, the i-th record made
\* of the i-th such line, trimmed, under id i; next_id is one more than
\* their number and the path is the location read.
C7_LoadNumbersLines ==
    [][\A p \in Paths :
          (ret'.ok /\ FromFile(p)) =>
              /\ Len(items') = Len(TextLines(p))
              /\ \A i \in 1..Len(items') :
                    items'[i] = Item(Parse(Trim(TextLines(p)[i])), i)
              /\ next_id' = Len(TextLines(p)) + 1
              /\ path' = p]_vars

\* the file of one task among three lines is loaded: one record, id 1
C7_Witness ==
    /\ Len(Lines(fs[TODO_PATH].text)) = 3
    /\ Len(items) = 1
    /\ items[1].id = 1
    /\ items[1].subject = <<"v", SP, "+p">>
    /\ next_id = 2
    /\ path = TODO_PATH
    /\ ret.ok

\* C8: remove of an id a record holds returns that record, takes exactly it
\* out and leaves every other record as it was, in the same order and found
\* by get under its id; remove of an id no record holds returns None and
\* leaves the records, their order and next_id as they were.
C8_RemoveFrame ==
    [][\A id \in Ids :
          Remove(id) =>
              IF id \in IdsOf(items)
              THEN /\ Len(RemoveReturn(items, id)) = 1
                   /\ RemoveReturn(items, id)[1].id = id
                   /\ RemoveReturn(items, id) = GetItem(items, id)
                   /\ items' = SelectSeq(items, LAMBDA r : r.id # id)
                   /\ Len(items') = Len(items) - 1
                   /\ \A k \in IdsOf(items) \ {id} :
                         GetItem(items', k) = GetItem(items, k)
              ELSE /\ RemoveReturn(items, id) = <<>>
                   /\ items' = items
                   /\ next_id' = next_id]_vars

\* the first record of three is removed; the two others are there, in order
C8_Witness ==
    /\ IdSeq(items) = <<2, 3>>
    /\ items[1].finished
    /\ items[2].subject = <<"w">>
    /\ next_id = 4

\* C9: complete and uncomplete of an id no record holds return false and
\* leave the records, their flags, their order and next_id as they were.
C9_MissingIdNoChange ==
    [][\A id \in Ids \ IdsOf(items) :
          /\ \/ /\ ~CompleteReturn(items, id)
                /\ items' = items
                /\ next_id' = next_id
             \/ ~Complete(id)
          /\ \/ /\ ~UncompleteReturn(items, id)
                /\ items' = items
                /\ next_id' = next_id
             \/ ~Uncomplete(id)]_vars

\* a list of a finished and a pending record, and an id neither holds
C9_Witness ==
    /\ IdSeq(items) = <<1, 2>>
    /\ items[1].finished
    /\ ~items[2].finished
    /\ 3 \in Ids \ IdsOf(items)
    /\ ~CompleteReturn(items, 3)

\* C10: complete of an id a record holds returns true and leaves the record
\* finished, uncomplete returns true and leaves it pending, whatever it was
\* before; a second call changes nothing more.
C10_CompleteSets ==
    [][\A id \in IdsOf(items) :
          /\ Complete(id) =>
                /\ CompleteReturn(items, id)
                /\ GetItem(items', id) # <<>>
                /\ GetItem(items', id)[1].finished
                /\ CompleteIn(items', id) = items'
          /\ Uncomplete(id) =>
                /\ UncompleteReturn(items, id)
                /\ GetItem(items', id) # <<>>
                /\ ~GetItem(items', id)[1].finished
                /\ UncompleteIn(items', id) = items']_vars

\* a record that add made pending is finished now, beside a pending one
C10_Witness ==
    /\ \E k \in DOMAIN born :
          /\ ~Parse(born[k]).finished
          /\ GetItem(items, k) # <<>>
          /\ GetItem(items, k)[1].finished
    /\ \E i \in 1..Len(items) : ~items[i].finished


\* C11: complete and uncomplete of an id leave the list as long as it was,
\* every record of another id as it was and where it was, the record of the
\* id with its id, subject, priority, contexts and projects, and next_id and
\* the bound path as they were.
C11_CompleteFrame ==
    [][\A id \in Ids :
          \/ /\ Len(items') = Len(items)
             /\ next_id' = next_id
             /\ path' = path
             /\ \A i \in 1..Len(items) :
                   /\ items'[i].id = items[i].id
                   /\ items'[i].subject = items[i].subject
                   /\ items'[i].priority = items[i].priority
                   /\ items'[i].contexts = items[i].contexts
                   /\ items'[i].projects = items[i].projects
                   /\ items[i].id # id => items'[i] = items[i]
          \/ ~(Complete(id) \/ Uncomplete(id))]_vars

\* a record with a priority, a context and a project was completed and is
\* pending again, beside a finished record; both still hold what add gave
C11_Witness ==
    /\ IdSeq(items) = <<1, 2>>
    /\ DOMAIN born = {1, 2}
    /\ \A i \in 1..2 : SameButFinished(items[i], Item(Parse(born[i]), i))
    /\ items[1].priority = PrioA
    /\ items[1].contexts = <<"c">>
    /\ items[1].projects = <<"h---e">>
    /\ ~items[1].finished
    /\ items[2].finished
    /\ path = TODO_PATH


\* the lines a list renders to, and the lines of the file
RenderedLines(its) == { Render(Inner(its[i])) : i \in 1..Len(its) }

FileLines(f) == { Lines(f.text)[i] : i \in 1..Len(Lines(f.text)) }

\* C12: when two sessions have loaded the same file and one of them has saved
\* its list, a save by the other is refused for no conflict: it returns Ok
\* and leaves the file as the rendering of the saver's own list, with no line
\* of the first saver's list that the saver's list does not have; or the write
\* itself fails, with the error of the file system.
C12_LastWriterWins ==
    [][\A s \in Sessions :
          LET o == 3 - s
              mine == sessions[s].items
              theirs == sessions[o].items
          IN  \/ ~(HasLoaded(s) /\ seen[s] = seen[o] /\ saved = <<o>>)
              \/ ~SessionSave(s)
              \/ /\ ret' = Ok(<<>>)
                 /\ saved' = <<o, s>>
                 /\ fs'[TODO_PATH] = File(Content(mine))
                 /\ \A line \in RenderedLines(theirs) \ RenderedLines(mine) :
                       line \notin FileLines(fs'[TODO_PATH])
              \/ /\ ret' = Err(WriteError)
                 /\ fs'[TODO_PATH] \in {fs[TODO_PATH], File(<<>>)}]_vars

\* both sessions loaded the file of one task; the first added a task and
\* saved, the second completed the task and saved: the file is the second's
\* list, and the task the first added is not in it
C12_Witness ==
    /\ saved = <<1, 2>>
    /\ seen[1] = seen[2]
    /\ seen[1] = File(<<SP, LF, LF, SP, "v", SP, "+p", SP, LF>>)
    /\ Len(sessions[1].items) = 2
    /\ sessions[1].items[2].subject = <<"w">>
    /\ Len(sessions[2].items) = 1
    /\ sessions[2].items[1].finished
    /\ fs[TODO_PATH] = File(<<DoneMark, SP, "v", SP, "+p">>)
    /\ <<"w">> \notin FileLines(fs[TODO_PATH])
    /\ ret = Ok(<<>>)


\* a step of save or save_to
Saving == Save \/ \E p \in Paths : SaveTo(p)

IoFailures ==
    {ReadErrorOf(NoFile), WriteError} \cup {ReadErrorOf(File(t)) : t \in InitFiles}

\* C14, as stated: save on a list without a path returns an error whose kind
\* is the kind of no failed read or write, and leaves the files as they were;
\* save on a list with a path, when it returns Ok, has written the list to
\* that path.
C14_NotBoundDistinct ==
    [][/\ (path = NoPath /\ Save) =>
            /\ ~ret'.ok
            /\ fs' = fs
            /\ \A e \in IoFailures : ret'.err.kind # e.kind
       /\ (path # NoPath /\ ret'.ok /\ Save) =>
            fs'[path] = File(Content(items))]_vars


\* C15: toggle_todo and delete_todo of an id no record of the loaded list
\* holds return an error that is a message (the message that the todo was not
\* found, or the message of the failed read when the file could not be
\* loaded) and leave the file as it was.
C15_MissingIdNoSave ==
    [][\A id \in Ids \ IdsOf(Loaded) :
          \/ /\ fs' = fs
             /\ ~ret'.ok
             /\ ret'.err.kind = NoKind
             /\ ret'.err.msg \in {NotFoundMessage, to_string(ReadError(TODO_PATH))}
          \/ ~(ToggleTodo(id) \/ DeleteTodo(id))]_vars

\* the file holds one task among blank lines, as it did at the start, and the
\* last command, called with an id other than 1, returned "Todo not found"
C15_Witness ==
    /\ ret = Err(Text(NotFoundMessage))
    /\ IdSeq(Loaded) = <<1>>
    /\ fs[TODO_PATH] = File(<<SP, LF, LF, SP, "v", SP, "+p", SP, LF>>)


\* C16, for the tags: the contexts and the projects of every record are those
\* that parsing the text it renders gives.
C16_TagsMatchText ==
    \A i \in 1..Len(items) :
        LET reparsed == Parse(Render(Inner(items[i])))
        IN  /\ items[i].contexts = reparsed.contexts
            /\ items[i].projects = reparsed.projects


\* the nodes of a forest at every depth, each with the names from its
\* top-level ancestor down to itself
RECURSIVE Walk(_, _)
Walk(nodes, chain) ==
    IF nodes = <<>> THEN <<>>
    ELSE LET here == Append(chain, Head(nodes).name)
         IN  <<[ node |-> Head(nodes), chain |-> here ]>>
             \o Walk(Head(nodes).children, here)
             \o Walk(Tail(nodes), chain)

AllNodes(f) == Walk(f, <<>>)

\* the project tags of a list, in a row
RECURSIVE TagsOf(_)
TagsOf(ts) == IF ts = <<>> THEN <<>> ELSE Head(ts).projects \o TagsOf(Tail(ts))

RECURSIVE SumCounts(_)
SumCounts(entries) ==
    IF entries = <<>> THEN 0
    ELSE Head(entries).node.direct_count + SumCounts(Tail(entries))

\* C17: the direct_count of all the nodes of the forest build_project_tree
\* returns, at every depth, add up to the number of project tags of the list.
C17_CountConservation ==
    [][BuildTree => SumCounts(AllNodes(forest')) = Len(TagsOf(todos))]_vars

\* three tags on two records, two of them the same tag below a node no tag
\* names: a node of count 0 and a node of count 2 are in the forest
C17_Witness ==
    /\ Len(todos) = 2
    /\ Len(TagsOf(todos)) = 3
    /\ \E i \in 1..Len(AllNodes(forest)) :
          /\ AllNodes(forest)[i].node.direct_count = 0
          /\ AllNodes(forest)[i].node.children # <<>>
    /\ \E i \in 1..Len(AllNodes(forest)) :
          /\ AllNodes(forest)[i].node.direct_count = 2
          /\ Len(AllNodes(forest)[i].chain) = 2


\* a row of tags in ascending order, duplicates kept
RECURSIVE SortRow(_)
SortRow(row) ==
    IF row = <<>> THEN <<>>
    ELSE LET i == CHOOSE i \in 1..Len(row) :
                     \A j \in 1..Len(row) : ~StrLess(row[j], row[i])
         IN  <<row[i]>> \o SortRow(SubSeq(row, 1, i - 1) \o SubSeq(row, i + 1, Len(row)))

\* the list that stands for every list of the same multiset of tags: one
\* record with the tags in ascending order
SameTagsList(ts) == << [ projects |-> SortRow(TagsOf(ts)) ] >>

\* C18: the forest build_project_tree returns for a list is the forest it
\* returns for the one-record list of the same tags in ascending order:
\* nodes, counts and order of the children are the same.  That list is the
\* same for every two lists of one multiset of tags, however the tags are
\* ordered and dealt to the records, so their forests are the same.
C18_TreeDeterminism ==
    [][BuildTree => forest' = build_project_tree(SameTagsList(todos))]_vars

\* tags given in descending order on two records: a---b, then b and a; the
\* forest has a before b, and b below a
C18_Witness ==
    /\ Len(todos) = 2
    /\ TagsOf(todos) # SortRow(TagsOf(todos))
    /\ todos[1].projects = << <<"a">> \o PROJECT_SEPARATOR \o <<"b">> >>
    /\ todos[2].projects = << <<"b">>, <<"a">> >>
    /\ Len(forest) = 2
    /\ forest[1].name = <<"a">>
    /\ forest[1].direct_count = 1
    /\ Len(forest[1].children) = 1
    /\ forest[2].name = <<"b">>


\* how many tags of a row are the string s
RECURSIVE Occurrences(_, _)
Occurrences(row, s) ==
    IF row = <<>> THEN 0
    ELSE (IF Head(row) = s THEN 1 ELSE 0) + Occurrences(Tail(row), s)

\* C19, as stated: the direct_count of every node of the forest is the number
\* of project tags of the list that are, as whole strings, the node's
\* full_path.
C19_DirectCountOfFullPath ==
    [][BuildTree =>
          \A i \in 1..Len(AllNodes(forest')) :
              LET n == AllNodes(forest')[i].node
              IN  n.direct_count = Occurrences(TagsOf(todos), n.full_path)]_vars

\* names joined by the separator
RECURSIVE JoinParts(_)
JoinParts(parts) ==
    IF Len(parts) = 1 THEN parts[1]
    ELSE parts[1] \o PROJECT_SEPARATOR \o JoinParts(Tail(parts))

\* C20, as stated: the full_path of every node of the forest is the names
\* from its top-level ancestor down to itself joined by the separator,
\* splitting it on the separator gives these names back, and no two nodes
\* of the forest have the same full_path.
C20_FullPathLossless ==
    [][BuildTree =>
          LET all == AllNodes(forest')
          IN  /\ \A i \in 1..Len(all) :
                    /\ all[i].node.full_path = JoinParts(all[i].chain)
                    /\ Split(all[i].node.full_path) = all[i].chain
              /\ \A i, j \in 1..Len(all) :
                    i # j => all[i].node.full_path # all[j].node.full_path]_vars


\* the levels of a forest: its top level and the children of every node
Levels(f) == {f} \cup { AllNodes(f)[i].node.children : i \in 1..Len(AllNodes(f)) }

\* C21: at every level of the forest build_project_tree returns, the top
\* level and the children of every node, the nodes stand in ascending order
\* of their names, each name strictly below the next one, so no two siblings
\* have the same name.
C21_SiblingsSorted ==
    \A level \in Levels(forest) :
        \A i \in 1..Len(level) : \A j \in 1..Len(level) :
            i < j => StrLess(level[i].name, level[j].name)

\* C21 witness: a forest is built with two top-level nodes, the first of
\* which has two children.
C21_Witness ==
    /\ Len(forest) = 2
    /\ forest[1].name = <<"a">>
    /\ forest[2].name = <<"b">>
    /\ Len(forest[1].children) = 2
    /\ forest[1].children[1].name = <<"a">>
    /\ forest[1].children[2].name = <<"b">>


\* the list without its empty project tags
DropEmptyTags(ts) ==
    [i \in 1..Len(ts) |->
        [ projects |-> SelectSeq(ts[i].projects, LAMBDA p : p # <<>>) ]]

\* C22: build_project_tree ignores an empty project tag: the forest it
\* builds from a list is the forest it builds from the same list with the
\* empty tags taken out (no node is made for them, no count added).
C22_EmptyTagIgnored ==
    [][BuildTree => forest' = build_project_tree(DropEmptyTags(todos))]_vars


\* the ids and the finished flags of a snapshot, in its order
SnapMarks(snap) ==
    [i \in 1..Len(snap) |-> [ id |-> snap[i].id, finished |-> snap[i].finished ]]

\* the marks after the record of id has its finished flag turned over
MarksToggled(marks, id) ==
    [i \in 1..Len(marks) |->
        IF marks[i].id = id
        THEN [marks[i] EXCEPT !.finished = ~marks[i].finished]
        ELSE marks[i]]

\* the marks after the record of id is taken out
MarksDeleted(marks, id) == SelectSeq(marks, LAMBDA r : r.id # id)

\* C23: an id of the snapshot a command returned stays the id of the same
\* task in the commands that follow: when the last command returned a
\* snapshot and the caller passes an id of that snapshot, toggle_todo turns
\* over, and delete_todo takes out, exactly the record that has the id in
\* the snapshot, every other record keeps its id and its finished flag, and
\* the command does not fail for a missing id.
C23_SnapshotIdStable ==
    [][\A id \in Ids :
          \/ ~(ret.ok /\ id \in IdsOf(ret.snap))
          \/ /\ (ToggleTodo(id) /\ ret'.ok) =>
                   SnapMarks(ret'.snap) = MarksToggled(SnapMarks(ret.snap), id)
             /\ (DeleteTodo(id) /\ ret'.ok) =>
                   SnapMarks(ret'.snap) = MarksDeleted(SnapMarks(ret.snap), id)
             /\ (ToggleTodo(id) \/ DeleteTodo(id)) =>
                   (ret'.ok \/ ret'.err.msg # NotFoundMessage)]_vars


\* C24: save then load gives the records back: after a save that returned
\* Ok, the file has one line per record of the list, and the list from_file
\* makes of it has as many records as the list saved, in the same order,
\* each with the finished flag, the contexts and the projects of the record
\* saved; the list may hold records added with the empty text, a blank text
\* or a text of two lines.
C24_SaveLoadRoundTrip ==
    [][(Save /\ ret'.ok) =>
          LET text == fs'[path].text
              back == FromContent(path, text).items
          IN  /\ Len(Lines(text)) = Len(items)
              /\ Len(back) = Len(items)
              /\ \A i \in 1..Len(items) :
                    /\ back[i].finished = items[i].finished
                    /\ back[i].contexts = items[i].contexts
                    /\ back[i].projects = items[i].projects]_vars


\* the records of part stand in the order they have in the list
KeepsOrder(part, its) ==
    \A i \in 1..Len(part) : \A j \in 1..Len(part) :
        i < j => Position(its, part[i].id) < Position(its, part[j].id)

\* how often the record r is yielded
TimesIn(part, r) == Cardinality({ i \in 1..Len(part) : part[i] = r })

\* C25: in every state of a TodoList pending() and done() split items():
\* each record is yielded by exactly one of them, by pending() when it is not
\* finished and by done() when it is, both yield records of the list only
\* and in the order of the list, and their counts add up to len().
C25_PendingDonePartition ==
    LET p == pending(items)
        d == done(items)
    IN  /\ Len(p) + Len(d) = len(items)
        /\ \A i \in 1..Len(items) :
              /\ TimesIn(p, items[i]) = (IF items[i].finished THEN 0 ELSE 1)
              /\ TimesIn(d, items[i]) = (IF items[i].finished THEN 1 ELSE 0)
        /\ \A i \in 1..Len(p) : \E k \in 1..Len(items) : items[k] = p[i]
        /\ \A i \in 1..Len(d) : \E k \in 1..Len(items) : items[k] = d[i]
        /\ KeepsOrder(p, items)
        /\ KeepsOrder(d, items)

\* C25 witness: a list of three records, the first pending, the second and
\* the third finished, the third by a complete of this session.
C25_Witness ==
    /\ Len(items) = 3
    /\ IdSeq(pending(items)) = <<1>>
    /\ IdSeq(done(items)) = <<2, 3>>
    /\ items[3].subject = <<"w">>
    /\ fs[TODO_PATH].exists
    /\ Lines(fs[TODO_PATH].text)[3] = <<"w">>

====
